---- MODULE Spec2Model ----
(***************************************************************************)
(* The hover list of react-overreact: the same list of hoverable divs      *)
(* written five times.                                                     *)
(*   "naive"       src/unnamed/part_000          inline divs               *)
(*   "component"   src/src/App.tsx 1-59          extracted Element         *)
(*   "memo"        src/src/App.tsx 61-133        React.memo + comparator   *)
(*   "useCallback" src/unnamed/part_001 263-337  memo + useCallback        *)
(*   "vanilla"     src/vanilla/index.js          plain DOM listeners       *)
(* Every pointer event is delivered to the same element of all five lists, *)
(* so the variants can be compared on one event sequence.  One event is    *)
(* one step: the handler runs, and when it changed the state React         *)
(* re-renders App and commits the DOM before the next event is dispatched. *)
(***************************************************************************)
EXTENDS Naturals, Sequences, FiniteSets, TLC

\* Number of elements in the list (500 in the sources), scaled down.
N == 3

\* App renders allowed per variant; bounds the identity of handler functions.
MaxRenders == 4

Items == 0 .. (N - 1)

ReactVariants == {"naive", "component", "memo", "useCallback"}

Variants == ReactVariants \cup {"vanilla"}

VARIABLES
  hoveredElementId,  \* [ReactVariants -> string]: the useState value
  renderCount,       \* [ReactVariants -> Nat]: renders of App so far
  hookCells,         \* the two useCallback cells of the "useCallback" App
  elementProps,      \* [ReactVariants -> [Items -> props]]: the props each
                     \* element was last rendered with; its handlers are the
                     \* closures in these props
  rerendered,        \* [ReactVariants -> SUBSET Items]: elements rendered
                     \* while the latest event was processed
  backgroundColor,   \* [Variants -> [Items -> string]]: the DOM style
  renderedState,     \* [ReactVariants -> string]: the hoveredElementId
                     \* the latest render of App read
  setSince,          \* [ReactVariants -> BOOLEAN]: setHoveredElementId was
                     \* called since the latest render of App
  history,           \* the latest events, oldest first (observer only)
  recent,            \* the latest mouseenter, if any, and whether its item
                     \* got a mouseleave since (observer only)
  cmp                \* one call of the React.memo comparator on its own:
                     \* its two arguments and, once it ran, its result

appVars == <<hoveredElementId, renderCount, hookCells, elementProps,
             rerendered, backgroundColor, renderedState, setSince, history,
             recent>>

vars == <<appVars, cmp>>

-----------------------------------------------------------------------------
(* JavaScript values *)

Digits == <<"0", "1", "2", "3", "4", "5", "6", "7", "8", "9">>

\* A conversion that gives the empty string for 0.
StringEmptyForZero(i) == IF i = 0 THEN "" ELSE Digits[(i % 10) + 1]

\* String(i) of a non-negative integer: its decimal digits.
RECURSIVE String(_)
String(i) ==
  IF i < 10 THEN Digits[i + 1]
  ELSE String(i \div 10) \o Digits[(i % 10) + 1]

\* a === b on two strings.
StrictEq(a, b) == a = b

\* a == b.  Both operands are strings wherever the sources use it, and the
\* abstract equality of two values of one type is their strict equality.
LooseEq(a, b) == a = b

\* The state setter returned by useState: one function for the whole life
\* of the component.
setHoveredElementId == "setHoveredElementId"

\* The function object an arrow expression creates during render number
\* gen; h is the hoveredElementId of that render, which the body of
\* handleMouseLeave reads.  Two function objects are the same reference iff
\* they were created by the same render.
EnterClosure(gen) == [ref |-> gen]

\* A leave handler that closes over the initial state whatever App holds.
LeaveClosureInitial(gen, h) == [ref |-> gen, hoveredElementId |-> ""]

LeaveClosure(gen, h) == [ref |-> gen, hoveredElementId |-> h]

\* Reference equality of two function objects.
SameRef(f, g) == f.ref = g.ref

-----------------------------------------------------------------------------
(* Element and its memoization *)

Props(i, h, onEnter, onLeave) ==
  [id |-> String(i), hoveredElementId |-> h,
   onMouseEnter |-> onEnter, onMouseLeave |-> onLeave]

\* Element with the two colours swapped.
ElementSwapped(props) ==
  IF StrictEq(props.hoveredElementId, props.id) THEN "" ELSE "#eee"

\* The backgroundColor Element renders.
Element(props) ==
  IF StrictEq(props.hoveredElementId, props.id) THEN "#eee" ELSE ""

\* An equality of the remaining props that looks at the id alone.
isEqualIgnoringCallbacks(oldProps, newProps) ==
  oldProps.id = newProps.id

\* _.isEqual on the props without hoveredElementId: id by value, the two
\* callbacks by reference.
isEqual(oldProps, newProps) ==
  /\ oldProps.id = newProps.id
  /\ SameRef(oldProps.onMouseEnter, newProps.onMouseEnter)
  /\ SameRef(oldProps.onMouseLeave, newProps.onMouseLeave)

\* A comparator that forgets the element that loses the hover.
ComparatorIgnoringOld(prevProps, nextProps) ==
  IF StrictEq(nextProps.hoveredElementId, nextProps.id) THEN FALSE
  ELSE isEqual(prevProps, nextProps)

\* A comparator that forgets the element that gains the hover.
ComparatorIgnoringNew(prevProps, nextProps) ==
  IF StrictEq(prevProps.hoveredElementId, nextProps.id) THEN FALSE
  ELSE isEqual(prevProps, nextProps)

\* The second argument of React.memo: TRUE means "skip the render".
MemoComparator(prevProps, nextProps) ==
  IF StrictEq(prevProps.hoveredElementId, nextProps.id) THEN FALSE
  ELSE IF StrictEq(nextProps.hoveredElementId, nextProps.id) THEN FALSE
  ELSE isEqual(prevProps, nextProps)

Memoized(v) == v \in {"memo", "useCallback"}

-----------------------------------------------------------------------------
(* App *)

\* A dependency list that names the state the callback reads.
DepsWithState(h) == <<setHoveredElementId, h>>

\* The dependency list both useCallback calls pass.
CallbackDeps(h) == <<setHoveredElementId>>

\* useCallback(fn, deps) on a cell that holds an earlier call: the earlier
\* function while the dependencies are unchanged.
useCallback(cell, fn, deps) ==
  IF cell.deps = deps THEN cell ELSE [fn |-> fn, deps |-> deps]

\* The cells after render number gen of the "useCallback" App.
RenderCells(cells, h, gen) ==
  [enter |-> useCallback(cells.enter, EnterClosure(gen), CallbackDeps(h)),
   leave |-> useCallback(cells.leave, LeaveClosure(gen, h), CallbackDeps(h))]

\* The handlers render number gen of App hands to its elements.
AppHandlers(v, cells, h, gen) ==
  IF v = "useCallback"
  THEN [onMouseEnter |-> RenderCells(cells, h, gen).enter.fn,
        onMouseLeave |-> RenderCells(cells, h, gen).leave.fn]
  ELSE [onMouseEnter |-> EnterClosure(gen),
        onMouseLeave |-> LeaveClosure(gen, h)]

\* Does element i render again when App renders?
Rerenders(v, prev, next) ==
  ~ (Memoized(v) /\ MemoComparator(prev, next))

\* Render number gen of App with state h: the props every element holds
\* afterwards, the elements that rendered, and the committed styles.
RenderApp(v, cells, h, gen, prevProps, prevStyle) ==
  LET handlers == AppHandlers(v, cells, h, gen)
      next == [j \in Items |->
                 Props(j, h, handlers.onMouseEnter, handlers.onMouseLeave)]
      again == {j \in Items : Rerenders(v, prevProps[j], next[j])}
  IN  [props |-> [j \in Items |-> IF j \in again THEN next[j]
                                  ELSE prevProps[j]],
       again |-> again,
       style |-> [j \in Items |-> IF j \in again THEN Element(next[j])
                                  ELSE prevStyle[j]]]

-----------------------------------------------------------------------------
(* Event handlers: the value of hoveredElementId after the handler ran.   *)
(* captured is the hoveredElementId the closure was created with, current *)
(* the live state, which the handler keeps when it does not call the      *)
(* setter.                                                                *)

naive_onMouseEnter(elementId) == elementId

\* A leave handler without the guard.
naive_onMouseLeaveUnguarded(elementId, captured, current) == ""

\* A leave handler that fails for an item that is not the hovered one.
naive_onMouseLeaveRejecting(elementId, captured, current) ==
  IF LooseEq(elementId, captured) THEN "" ELSE "Error"

naive_onMouseLeave(elementId, captured, current) ==
  IF LooseEq(elementId, captured) THEN "" ELSE current

component_handleMouseEnter(id) == id

\* A leave handler that compares with the initial state.
component_handleMouseLeaveInitial(id, captured, current) ==
  IF LooseEq(id, "") THEN "" ELSE current

component_handleMouseLeave(id, captured, current) ==
  IF LooseEq(id, captured) THEN "" ELSE current

memo_handleMouseEnter(id) == id

\* A leave handler without the guard.
memo_handleMouseLeaveUnguarded(id, captured, current) == ""

\* A leave handler that compares with the initial state.
memo_handleMouseLeaveInitial(id, captured, current) ==
  IF StrictEq(id, "") THEN "" ELSE current

memo_handleMouseLeave(id, captured, current) ==
  IF StrictEq(id, captured) THEN "" ELSE current

callback_handleMouseEnter(id) == id

callback_handleMouseLeave(id, captured, current) ==
  IF StrictEq(id, captured) THEN "" ELSE current

\* An element whose enter handler toggles: entering the hovered item
\* clears the hover.
AfterEventToggling(v, kind, i) ==
  LET p == elementProps[v][i]
      captured == p.onMouseLeave.hoveredElementId
      current == hoveredElementId[v]
  IN  IF kind = "mouseenter"
      THEN IF current = p.id THEN "" ELSE p.id
      ELSE IF v \in {"naive", "component"}
           THEN component_handleMouseLeave(p.id, captured, current)
           ELSE memo_handleMouseLeave(p.id, captured, current)

\* Element i of variant v calls the handler in its props with its own id
\* while the state is current: the state afterwards.
HandlerOutcome(v, kind, i, current) ==
  LET p == elementProps[v][i]
      captured == p.onMouseLeave.hoveredElementId
  IN  IF kind = "mouseenter"
      THEN CASE v = "naive" -> naive_onMouseEnter(p.id)
             [] v = "component" -> component_handleMouseEnter(p.id)
             [] v = "memo" -> memo_handleMouseEnter(p.id)
             [] v = "useCallback" -> callback_handleMouseEnter(p.id)
      ELSE CASE v = "naive" -> naive_onMouseLeave(p.id, captured, current)
             [] v = "component" ->
                  component_handleMouseLeave(p.id, captured, current)
             [] v = "memo" -> memo_handleMouseLeave(p.id, captured, current)
             [] v = "useCallback" ->
                  callback_handleMouseLeave(p.id, captured, current)

\* The state after element i of variant v received the event.
AfterEvent(v, kind, i) == HandlerOutcome(v, kind, i, hoveredElementId[v])

\* Did the handler call setHoveredElementId?  A handler that does not
\* call it leaves whatever the state is.
SetterCalled(v, kind, i) ==
  HandlerOutcome(v, kind, i, "not called") # "not called"

\* The listeners of the vanilla list: the style of element i afterwards.
vanilla_mouseenter(color) == "#eee"

\* A mouseleave listener that leaves the style as it is.
vanilla_mouseleaveKeeping(color) == color

vanilla_mouseleave(color) == ""

-----------------------------------------------------------------------------
(* The state machine *)

\* The observer keeps the three latest events.
Remember(event) ==
  IF Len(history) < 3 THEN Append(history, event)
  ELSE Append(Tail(history), event)

\* The observer's note of the latest mouseenter after one more event.
Noted(kind, i) ==
  IF kind = "mouseenter" THEN [entered |-> {i}, left |-> FALSE]
  ELSE IF i \in recent.entered THEN [recent EXCEPT !.left = TRUE]
  ELSE recent

\* The first render: state "", every element rendered, nothing highlighted.
InitApp ==
  /\ hoveredElementId = [v \in ReactVariants |-> ""]
  /\ renderCount = [v \in ReactVariants |-> 1]
  /\ hookCells = [enter |-> [fn |-> EnterClosure(1), deps |-> CallbackDeps("")],
                  leave |-> [fn |-> LeaveClosure(1, ""),
                             deps |-> CallbackDeps("")]]
  /\ elementProps =
       [v \in ReactVariants |->
          [i \in Items |-> Props(i, "", EnterClosure(1), LeaveClosure(1, ""))]]
  /\ rerendered = [v \in ReactVariants |-> Items]
  /\ backgroundColor =
       [v \in Variants |->
          [i \in Items |-> IF v = "vanilla" THEN ""
                           ELSE Element(Props(i, "", EnterClosure(1),
                                              LeaveClosure(1, "")))]]
  /\ renderedState = [v \in ReactVariants |-> ""]
  /\ setSince = [v \in ReactVariants |-> FALSE]
  /\ history = << >>
  /\ recent = [entered |-> {}, left |-> FALSE]

Init ==
  /\ InitApp
  /\ cmp = << >>

\* Element i of list v receives the event.  When the handler changed the
\* state App renders again; when the state is unchanged nothing renders.
Deliver(v, kind, i) ==
  LET after == AfterEvent(v, kind, i)
      gen == renderCount[v] + 1
      r == RenderApp(v, hookCells, after, gen, elementProps[v],
                     backgroundColor[v])
  IN  IF after # hoveredElementId[v]
      THEN [hovered |-> after, count |-> gen, props |-> r.props,
            again |-> r.again, style |-> r.style,
            cells |-> RenderCells(hookCells, after, gen),
            rendered |-> after, called |-> FALSE]
      ELSE [hovered |-> after, count |-> renderCount[v],
            props |-> elementProps[v], again |-> {},
            style |-> backgroundColor[v], cells |-> hookCells,
            rendered |-> renderedState[v],
            called |-> setSince[v] \/ SetterCalled(v, kind, i)]

\* Element i of every list receives the event.
Dispatch(kind, i) ==
  \E n \in {Deliver("naive", kind, i)},
     c \in {Deliver("component", kind, i)},
     m \in {Deliver("memo", kind, i)},
     u \in {Deliver("useCallback", kind, i)} :
      /\ hoveredElementId' = [naive |-> n.hovered, component |-> c.hovered,
                              memo |-> m.hovered, useCallback |-> u.hovered]
      /\ renderCount' = [naive |-> n.count, component |-> c.count,
                         memo |-> m.count, useCallback |-> u.count]
      /\ hookCells' = u.cells
      /\ elementProps' = [naive |-> n.props, component |-> c.props,
                          memo |-> m.props, useCallback |-> u.props]
      /\ rerendered' = [naive |-> n.again, component |-> c.again,
                        memo |-> m.again, useCallback |-> u.again]
      /\ backgroundColor' =
           [naive |-> n.style, component |-> c.style, memo |-> m.style,
            useCallback |-> u.style,
            vanilla |-> [backgroundColor["vanilla"] EXCEPT
                           ![i] = IF kind = "mouseenter"
                                  THEN vanilla_mouseenter(@)
                                  ELSE vanilla_mouseleave(@)]]
      /\ renderedState' = [naive |-> n.rendered, component |-> c.rendered,
                           memo |-> m.rendered, useCallback |-> u.rendered]
      /\ setSince' = [naive |-> n.called, component |-> c.called,
                      memo |-> m.called, useCallback |-> u.called]
      /\ history' = Remember([kind |-> kind, item |-> i])
      /\ recent' = Noted(kind, i)
      /\ cmp' = cmp

\* Handler functions are told apart by the render that created them, so the
\* run stops when a variant has rendered MaxRenders times.
CanRender == \A v \in ReactVariants : renderCount[v] < MaxRenders

MouseEnter ==
  \E i \in Items :
    /\ CanRender
    /\ Dispatch("mouseenter", i)

MouseLeave ==
  \E i \in Items :
    /\ CanRender
    /\ Dispatch("mouseleave", i)

Next == MouseEnter \/ MouseLeave

Spec == Init /\ [][Next]_vars

-----------------------------------------------------------------------------
(* Batched updates: React may run several handlers before it renders.     *)
(* The handlers of one batch are the closures of the latest render; the   *)
(* render that follows reads the state the batch left.                    *)

\* Element i of every list handles the event; no list renders yet.  The
\* observer follows a batched run through its note of the latest
\* mouseenter alone.
HandleInBatch(kind, i) ==
  /\ hoveredElementId' = [v \in ReactVariants |-> AfterEvent(v, kind, i)]
  /\ setSince' = [v \in ReactVariants |->
                    setSince[v] \/ SetterCalled(v, kind, i)]
  /\ rerendered' = [v \in ReactVariants |-> {}]
  /\ backgroundColor' =
       [backgroundColor EXCEPT
          !["vanilla"][i] = IF kind = "mouseenter" THEN vanilla_mouseenter(@)
                            ELSE vanilla_mouseleave(@)]
  /\ recent' = Noted(kind, i)
  /\ UNCHANGED <<renderCount, hookCells, elementProps, renderedState,
                 history, cmp>>

EnterInBatch ==
  \E i \in Items :
    /\ CanRender
    /\ HandleInBatch("mouseenter", i)

LeaveInBatch ==
  \E i \in Items :
    /\ CanRender
    /\ HandleInBatch("mouseleave", i)

\* The render of list v that ends a batch, when the batch changed the
\* state.
FlushOne(v) ==
  LET gen == renderCount[v] + 1
      r == RenderApp(v, hookCells, hoveredElementId[v], gen, elementProps[v],
                     backgroundColor[v])
  IN  IF hoveredElementId[v] # renderedState[v]
      THEN [count |-> gen, props |-> r.props, again |-> r.again,
            style |-> r.style,
            cells |-> RenderCells(hookCells, hoveredElementId[v], gen),
            rendered |-> hoveredElementId[v], called |-> FALSE]
      ELSE [count |-> renderCount[v], props |-> elementProps[v],
            again |-> {}, style |-> backgroundColor[v], cells |-> hookCells,
            rendered |-> renderedState[v], called |-> setSince[v]]

\* The batch ends: every list whose state changed renders.
Flush ==
  /\ CanRender
  /\ \E v \in ReactVariants : hoveredElementId[v] # renderedState[v]
  /\ \E n \in {FlushOne("naive")},
        c \in {FlushOne("component")},
        m \in {FlushOne("memo")},
        u \in {FlushOne("useCallback")} :
       /\ renderCount' = [naive |-> n.count, component |-> c.count,
                          memo |-> m.count, useCallback |-> u.count]
       /\ hookCells' = u.cells
       /\ elementProps' = [naive |-> n.props, component |-> c.props,
                           memo |-> m.props, useCallback |-> u.props]
       /\ rerendered' = [naive |-> n.again, component |-> c.again,
                         memo |-> m.again, useCallback |-> u.again]
       /\ backgroundColor' =
            [naive |-> n.style, component |-> c.style, memo |-> m.style,
             useCallback |-> u.style, vanilla |-> backgroundColor["vanilla"]]
       /\ renderedState' = [naive |-> n.rendered, component |-> c.rendered,
                            memo |-> m.rendered, useCallback |-> u.rendered]
       /\ setSince' = [naive |-> n.called, component |-> c.called,
                       memo |-> m.called, useCallback |-> u.called]
  /\ UNCHANGED <<hoveredElementId, history, recent, cmp>>

NextBatched == EnterInBatch \/ LeaveInBatch \/ Flush

SpecBatched == Init /\ [][NextBatched]_vars

-----------------------------------------------------------------------------
(* The comparator on its own: any two props objects an element can get. *)

\* Two function objects are enough to be the same or to differ.
FunctionRefs == {1, 2}

HoverValues == {""} \cup {String(i) : i \in Items}

PropsValues ==
  {Props(i, h, EnterClosure(e), LeaveClosure(l, h)) :
     i \in Items, h \in HoverValues, e \in FunctionRefs, l \in FunctionRefs}

InitCmp ==
  /\ InitApp
  /\ cmp \in [prev : PropsValues, next : PropsValues,
               done : {FALSE}, result : {FALSE}]

\* React.memo calls the comparator with the previous and the next props.
Compare ==
  /\ ~ cmp.done
  /\ cmp' = [cmp EXCEPT !.done = TRUE,
                        !.result = MemoComparator(cmp.prev, cmp.next)]
  /\ UNCHANGED appVars

NextCmp == Compare

SpecCmp == InitCmp /\ [][NextCmp]_vars

-----------------------------------------------------------------------------
(* Observations *)

\* The spec's highlighted flag of item i: its div shows the highlight.
highlighted(v, i) == backgroundColor[v][i] = "#eee"

Highlights(v) == {i \in Items : highlighted(v, i)}

h_len == Len(history)

\* The k-th latest event (1 = latest).
Ev(k) == history[h_len - k + 1]

Enter(i) == [kind |-> "mouseenter", item |-> i]

Leave(i) == [kind |-> "mouseleave", item |-> i]

\* A well-defined state of the lists: a hovered id and a style everywhere.
StateOK ==
  /\ hoveredElementId \in [ReactVariants -> {""} \cup {String(i) : i \in Items}]
  /\ backgroundColor \in [Variants -> [Items -> {"", "#eee"}]]

\* The step handles the event (kind, i): the observer appends it.
Delivered(kind, i) == history' = Remember([kind |-> kind, item |-> i])

TypeOK ==
  /\ StateOK
  /\ \A v \in ReactVariants : renderCount[v] \in 1 .. MaxRenders
  /\ rerendered \in [ReactVariants -> SUBSET Items]

-----------------------------------------------------------------------------
(* Claims *)

\* C1: in every React variant, after onEnter(i); onEnter(j); onLeave(i) with
\* i # j the hovered id is j: the late leave of i does not clear the hover.
C1_LateLeaveKeepsNewerHover ==
  \A i, j \in Items :
    (/\ i # j
     /\ h_len = 3
     /\ history = <<Enter(i), Enter(j), Leave(i)>>)
    => \A v \in ReactVariants : hoveredElementId[v] = String(j)

C1_Witness ==
  /\ history = <<Enter(0), Enter(1), Leave(0)>>
  /\ hoveredElementId["naive"] = String(1)
  /\ hoveredElementId["component"] = String(1)

\* C2: in every React variant a mouseleave of item i delivered while the
\* hovered id is not i (the empty id included) leaves the hovered id as it
\* was.
C2_StaleLeaveIsNoOp ==
  [][\A i \in Items : \A v \in ReactVariants :
       (Delivered("mouseleave", i) /\ hoveredElementId[v] # String(i))
       => hoveredElementId'[v] = hoveredElementId[v]]_vars

C2_Witness ==
  /\ h_len >= 2
  /\ Ev(2) = Enter(2)
  /\ Ev(1) = Leave(1)
  /\ hoveredElementId["memo"] = String(2)

\* C3: in the naive, component and memo variants a mouseleave of item i
\* delivered while the hovered id is i empties the hovered id, and then no
\* item is highlighted.
C3_LeaveOfHoveredClears ==
  [][\A i \in Items : \A v \in {"naive", "component", "memo"} :
       (Delivered("mouseleave", i) /\ hoveredElementId[v] = String(i))
       => /\ hoveredElementId'[v] = ""
          /\ \A j \in Items : backgroundColor'[v][j] = ""]_vars

C3_Witness ==
  /\ h_len >= 2
  /\ Ev(2) = Enter(1)
  /\ Ev(1) = Leave(1)
  /\ \A v \in {"naive", "component", "memo"} :
       hoveredElementId[v] = "" /\ Highlights(v) = {}

\* C4: in the useCallback variant, after onEnter(i); onLeave(i) the hovered
\* id is empty.
C4_EnterLeaveEndsWithNone ==
  \A i \in Items :
    (h_len >= 2 /\ Ev(2) = Enter(i) /\ Ev(1) = Leave(i))
    => hoveredElementId["useCallback"] = ""

C4_Witness ==
  /\ h_len >= 2
  /\ Ev(2) = Enter(0)
  /\ Ev(1) = Leave(0)
  /\ hoveredElementId["useCallback"] = String(0)

\* C5: in every React variant at most one item is highlighted: exactly one
\* while the hovered id is an item's id, none while it is empty.
C5_AtMostOneHighlighted ==
  \A v \in ReactVariants :
    /\ Cardinality(Highlights(v)) <= 1
    /\ hoveredElementId[v] = "" => Highlights(v) = {}
    /\ hoveredElementId[v] # "" => Cardinality(Highlights(v)) = 1

C5_Witness ==
  /\ history = <<Enter(0), Enter(1), Enter(2)>>
  /\ \A v \in ReactVariants : Highlights(v) = {2}

\* C6: in the vanilla list at most one element has the highlight
\* background, whatever events were delivered.
C6_VanillaAtMostOneHighlighted ==
  Cardinality(Highlights("vanilla")) <= 1

\* C7: right after a mouseenter of item i, in every React variant the
\* hovered id is i, item i is highlighted and no other item is.
C7_EnterHighlightsOnlyThatItem ==
  [][\A i \in Items : \A v \in ReactVariants :
       Delivered("mouseenter", i)
       => /\ hoveredElementId'[v] = String(i)
          /\ backgroundColor'[v][i] = "#eee"
          /\ \A j \in Items \ {i} : backgroundColor'[v][j] = ""]_vars

C7_Witness ==
  /\ h_len >= 2
  /\ Ev(2) = Enter(2)
  /\ Ev(1) = Enter(0)
  /\ \A v \in ReactVariants :
       hoveredElementId[v] = String(0) /\ Highlights(v) = {0}

\* C8: in the memo and useCallback variants every element, the ones whose
\* render the comparator skipped included, shows the highlight iff the
\* hovered id is its id.
C8_NoStaleHighlight ==
  \A v \in {"memo", "useCallback"} : \A i \in Items :
    highlighted(v, i) <=> (hoveredElementId[v] = String(i))

C8_Witness ==
  /\ Cardinality(rerendered["useCallback"]) = 2
  /\ \E i \in Items \ rerendered["useCallback"] :
       ~ highlighted("useCallback", i)
  /\ \E i \in rerendered["useCallback"] : highlighted("useCallback", i)
  /\ Ev(1).kind = "mouseenter"

\* C9: the naive, component and memo variants, given the same events, hold
\* the same hovered id and show the same highlights.
C9_VariantsAgree ==
  \A v \in {"component", "memo"} :
    /\ hoveredElementId[v] = hoveredElementId["naive"]
    /\ backgroundColor[v] = backgroundColor["naive"]

C9_Witness ==
  /\ history = <<Enter(1), Leave(1), Enter(2)>>
  /\ \A v \in {"naive", "component", "memo"} :
       hoveredElementId[v] = String(2) /\ Highlights(v) = {2}

\* C10: in the useCallback variant, when the hovered id changes from a to
\* b the elements that render again are among those whose id is a or b.
C10_OnlyOldAndNewRerender ==
  [][hoveredElementId'["useCallback"] # hoveredElementId["useCallback"]
     => rerendered'["useCallback"] \subseteq
          {j \in Items : String(j) \in {hoveredElementId["useCallback"],
                                        hoveredElementId'["useCallback"]}}]_vars

C10_Witness ==
  /\ rerendered["useCallback"] = {0, 2}
  /\ hoveredElementId["useCallback"] = String(2)
  /\ Ev(1) = Enter(2)
  /\ Ev(2) = Enter(0)

\* C11: in the memo variant every step that changes the hovered id renders
\* every element again, because each render of App creates new handlers.
C11_MemoRerendersAll ==
  [][hoveredElementId'["memo"] # hoveredElementId["memo"]
     => /\ rerendered'["memo"] = Items
        /\ \A j \in Items :
             /\ ~ SameRef(elementProps'["memo"][j].onMouseEnter,
                          elementProps["memo"][j].onMouseEnter)
             /\ ~ SameRef(elementProps'["memo"][j].onMouseLeave,
                          elementProps["memo"][j].onMouseLeave)]_vars

C11_Witness ==
  /\ history = <<Enter(0), Enter(1)>>
  /\ rerendered["memo"] = Items
  /\ rerendered["useCallback"] = {0, 1}
  /\ renderCount["memo"] = 3

C13_ComparatorResult ==
  cmp.done
  => (cmp.result = FALSE <=>
        \/ cmp.prev.hoveredElementId = cmp.next.id
        \/ cmp.next.hoveredElementId = cmp.next.id
        \/ cmp.prev.id # cmp.next.id
        \/ cmp.prev.onMouseEnter.ref # cmp.next.onMouseEnter.ref
        \/ cmp.prev.onMouseLeave.ref # cmp.next.onMouseLeave.ref)

C13_Witness ==
  /\ cmp.done
  /\ cmp.result = TRUE
  /\ cmp.prev.id = String(2)
  /\ cmp.prev.hoveredElementId = String(0)
  /\ cmp.next.hoveredElementId = String(1)

\* C14: a mouseenter of item i right after a mouseenter of item i changes
\* neither a hovered id nor a highlight.
C14_EnterIsIdempotent ==
  [][\A i \in Items :
       (h_len >= 1 /\ Ev(1) = Enter(i) /\ Delivered("mouseenter", i))
       => /\ hoveredElementId' = hoveredElementId
          /\ backgroundColor' = backgroundColor]_vars

C14_Witness ==
  /\ history = <<Leave(2), Enter(2), Enter(2)>>
  /\ \A v \in ReactVariants :
       hoveredElementId[v] = String(2) /\ Highlights(v) = {2}
  /\ Highlights("vanilla") = {2}

\* C15: in every reachable state a mouseenter and a mouseleave of every
\* item can be handled, and handling it gives a well-defined outcome in
\* every list: a hovered id that is empty or an item's id, and a style for
\* every element.
C15_NoOperationFails ==
  \A i \in Items : \A kind \in {"mouseenter", "mouseleave"} :
    /\ \A v \in ReactVariants :
         /\ Deliver(v, kind, i).hovered \in HoverValues
         /\ Deliver(v, kind, i).style \in [Items -> {"", "#eee"}]
    /\ vanilla_mouseenter(backgroundColor["vanilla"][i]) \in {"", "#eee"}
    /\ vanilla_mouseleave(backgroundColor["vanilla"][i]) \in {"", "#eee"}

C15_Witness ==
  /\ history = <<Enter(1), Leave(0)>>
  /\ \A v \in ReactVariants :
       /\ hoveredElementId[v] = String(1)
       /\ Deliver(v, "mouseleave", 2).hovered = String(1)

\* C16: in the naive, component and memo variants the hovered id is the id
\* of the item of the latest mouseenter, unless that item got a mouseleave
\* since, and then it is empty; it is empty before any mouseenter.
C16_HoverFollowsLatestEnter ==
  \A v \in {"naive", "component", "memo"} :
    /\ recent.entered = {} => hoveredElementId[v] = ""
    /\ \A j \in recent.entered :
         hoveredElementId[v] = IF recent.left THEN "" ELSE String(j)

C16_Witness ==
  /\ history = <<Enter(2), Leave(2), Leave(0)>>
  /\ recent = [entered |-> {2}, left |-> TRUE]
  /\ \A v \in {"naive", "component", "memo"} : hoveredElementId[v] = ""

-----------------------------------------------------------------------------
\* The hoveredElementId the leave handler in element j's props closed over.
Captured(v, j) == elementProps[v][j].onMouseLeave.hoveredElementId

\* Does the guard of element j's leave handler decide as a comparison with
\* the live state would?
GuardMatches(v, j) ==
  LooseEq(String(j), Captured(v, j))
    <=> LooseEq(String(j), hoveredElementId[v])

\* C17 as stated: in the naive and component lists the leave guard reads
\* the hoveredElementId of the latest render, and that value equals the
\* live state exactly when setHoveredElementId was not called since that
\* render.
C17_CapturedLiveIffNoSet ==
  \A v \in {"naive", "component"} : \A j \in Items :
    /\ Captured(v, j) = renderedState[v]
    /\ (Captured(v, j) = hoveredElementId[v]) <=> ~ setSince[v]

\* C17: in the naive and component lists the leave guard reads the
\* hoveredElementId of the latest render.  That value equals the live
\* state whenever setHoveredElementId was not called since that render (a
\* call may also leave it equal), and the guard decides as the live
\* comparison would whenever the latest render has read the live state.
C17_GuardReadsRenderedState ==
  \A v \in {"naive", "component"} : \A j \in Items :
    /\ Captured(v, j) = renderedState[v]
    /\ ~ setSince[v] => Captured(v, j) = hoveredElementId[v]
    /\ hoveredElementId[v] = renderedState[v] => GuardMatches(v, j)

\* Item 0 was rendered as hovered, then item 1 was entered and item 0 left
\* in one batch: the guard of item 0 passed on the rendered "0" and cleared
\* the hover of item 1.
C17_Witness ==
  /\ recent = [entered |-> {1}, left |-> FALSE]
  /\ \A v \in {"naive", "component"} :
       /\ renderedState[v] = "0"
       /\ Captured(v, 0) = "0"
       /\ setSince[v]
       /\ hoveredElementId[v] = ""
       /\ ~ GuardMatches(v, 0)

-----------------------------------------------------------------------------
\* C18: in the useCallback list the memoized handleMouseLeave keeps the
\* closure of the first render, which compares with "".  Once an item was
\* entered the state is never "" again: it is the id of the latest item
\* entered and exactly that item is highlighted, whatever was left since.
C18_StaleLeaveNeverClears ==
  /\ hookCells.leave.fn = LeaveClosure(1, "")
  /\ \A j \in Items : Captured("useCallback", j) = ""
  /\ \A j \in recent.entered :
       /\ hoveredElementId["useCallback"] = String(j)
       /\ hoveredElementId["useCallback"] # ""
       /\ Highlights("useCallback") = {j}
       /\ Cardinality(Highlights("useCallback")) = 1

\* Item 1 was entered and then left twice; it is still the hovered one.
C18_Witness ==
  /\ history = <<Enter(1), Leave(1), Leave(1)>>
  /\ recent = [entered |-> {1}, left |-> TRUE]
  /\ renderCount["useCallback"] = 2
  /\ hoveredElementId["useCallback"] = "1"
  /\ Highlights("useCallback") = {1}

-----------------------------------------------------------------------------
\* The latest event element i received, among the events remembered.
LastEventOf(i) ==
  LET ks == {k \in 1 .. h_len : Ev(k).item = i}
  IN  IF ks = {} THEN "none"
      ELSE Ev(CHOOSE k \in ks : \A l \in ks : k <= l).kind

\* Is the whole run remembered?
WholeRunRemembered == h_len < 3

\* A step of the vanilla list: element i is highlighted after a
\* mouseenter and plain after a mouseleave, every other element is as it
\* was.
VanillaFrame ==
  \A i \in Items : \A kind \in {"mouseenter", "mouseleave"} :
    Delivered(kind, i) =>
      /\ highlighted("vanilla", i)' <=> (kind = "mouseenter")
      /\ \A j \in Items \ {i} :
           backgroundColor'["vanilla"][j] = backgroundColor["vanilla"][j]

\* Element i of the vanilla list is highlighted iff the last event it
\* received was a mouseenter.
VanillaLastEventDecides ==
  \A i \in Items :
    /\ LastEventOf(i) = "mouseenter" => highlighted("vanilla", i)
    /\ LastEventOf(i) = "mouseleave" => ~ highlighted("vanilla", i)
    /\ (LastEventOf(i) = "none" /\ WholeRunRemembered)
         => ~ highlighted("vanilla", i)

\* C19: in the vanilla list a mouseenter on element i highlights element
\* i only, a mouseleave on element i clears element i only whatever was
\* hovered, every other element keeps its highlight, and so element i is
\* highlighted iff the last event it received was a mouseenter.
C19_VanillaOwnHighlightOnly ==
  /\ [][VanillaFrame]_vars
  /\ []VanillaLastEventDecides

\* Items 0 and 1 were entered and item 0 left: item 1 keeps its highlight.
C19_Witness ==
  /\ history = <<Enter(0), Enter(1), Leave(0)>>
  /\ Highlights("vanilla") = {1}
  /\ LastEventOf(0) = "mouseleave"
  /\ LastEventOf(1) = "mouseenter"

-----------------------------------------------------------------------------
\* C20: in every React list hoveredElementId is "" or String(i) for an
\* item i; it is "" after the first render; "" is the id of no item; and
\* no item is highlighted after the first render or while
\* hoveredElementId is "".
C20_HoverStateDomain ==
  /\ \A i \in Items : String(i) # ""
  /\ \A v \in ReactVariants :
       /\ hoveredElementId[v] \in {""} \cup {String(i) : i \in Items}
       /\ renderCount[v] = 1 => hoveredElementId[v] = ""
       /\ hoveredElementId[v] = "" => Highlights(v) = {}

\* Item 2 was entered and left: the lists that clear the hover show no
\* highlight again.
C20_Witness ==
  /\ history = <<Enter(0), Enter(2), Leave(2)>>
  /\ \A v \in {"naive", "component", "memo"} :
       /\ renderCount[v] = 4
       /\ hoveredElementId[v] = ""
       /\ Highlights(v) = {}
  /\ hoveredElementId["useCallback"] = String(2)

====
